---- MODULE Spec2Model ----
(***************************************************************************)
(* Speculation contracts of the x86 Unicorn model (src/x86/x86_model.py):  *)
(* the conditional-branch contract, the zero-injection contracts and the   *)
(* out-of-order fault contracts with their divide-overflow, meltdown and   *)
(* non-canonical-address variants, driven hook by hook.                    *)
(*                                                                         *)
(* 64-bit register values are little-endian sequences of 8 bytes, so that  *)
(* the arithmetic of the source keeps its width; addresses of the sandbox  *)
(* and of the test case code are plain naturals.                           *)
(***************************************************************************)
EXTENDS Integers, Sequences, FiniteSets, TLC

\* ------------------------------------------------------------------------
\* Bounds of the model
\* ------------------------------------------------------------------------
\* largest configured speculation depth (model.nesting) that is explored
MaxNesting == 1
\* instructions traced in one run of a test case
MaxSteps == 3
\* bytes of the faulty region that are modelled
MemSize == 24

\* ------------------------------------------------------------------------
\* Program constants
\* ------------------------------------------------------------------------
FLAGS_CF == 1
FLAGS_PF == 4
FLAGS_AF == 16
FLAGS_ZF == 64
FLAGS_SF == 128
FLAGS_OF == 2048
\* mask and forced bit applied to the flags register by _load_input
FLAGS_LOAD_MASK == 2263
FLAGS_LOAD_SET == 2
\* longest x86 instruction; Unicorn reports a larger size for undefined code
MAX_INSTR_SIZE == 15
\* unicorn's access kinds
UC_MEM_READ == 16
UC_MEM_WRITE == 17
\* bytes saved in the store log by the zero-injection contracts
NULL_LOG_BYTES == 8
\* the fault number simulated by the non-canonical-address contract
GP_FAULT == 6

\* ------------------------------------------------------------------------
\* Naturals and bit operations on them
\* ------------------------------------------------------------------------
RECURSIVE Pow2(_)
Pow2(n) == IF n = 0 THEN 1 ELSE 2 * Pow2(n - 1)

\* Python's a & b on non-negative integers
RECURSIVE BitAnd(_, _)
BitAnd(a, b) ==
    IF a = 0 \/ b = 0 THEN 0
    ELSE (a % 2) * (b % 2) + 2 * BitAnd(a \div 2, b \div 2)

\* Python's a | b on non-negative integers
RECURSIVE BitOr(_, _)
BitOr(a, b) ==
    IF a = 0 THEN b
    ELSE IF b = 0 THEN a
    ELSE (IF a % 2 = 1 \/ b % 2 = 1 THEN 1 ELSE 0) + 2 * BitOr(a \div 2, b \div 2)

\* ------------------------------------------------------------------------
\* Unsigned integers as little-endian byte sequences
\* ------------------------------------------------------------------------
\* int.to_bytes(x, n, 'little'), for an x that fits a TLC integer
RECURSIVE to_bytes(_, _)
to_bytes(x, n) == IF n = 0 THEN <<>> ELSE <<x % 256>> \o to_bytes(x \div 256, n - 1)

\* int.from_bytes(b, byteorder='little'): unsigned
RECURSIVE from_bytes(_)
from_bytes(b) == IF b = <<>> THEN 0 ELSE b[1] + 256 * from_bytes(Tail(b))

\* the value of b in n bytes: zero-extended, or cut to its low n bytes
BZero(n) == to_bytes(0, n)

BResize(b, n) == IF Len(b) >= n THEN SubSeq(b, 1, n) ELSE b \o BZero(n - Len(b))

BIsZero(b) == \A i \in 1..Len(b) : b[i] = 0

\* a < b as unsigned integers (operands of any lengths)
RECURSIVE BLessFrom(_, _, _)
BLessFrom(a, b, i) ==
    IF i = 0 THEN FALSE
    ELSE IF a[i] # b[i] THEN a[i] < b[i]
    ELSE BLessFrom(a, b, i - 1)

BLess(a, b) ==
    LET n == IF Len(a) > Len(b) THEN Len(a) ELSE Len(b)
    IN  BLessFrom(BResize(a, n), BResize(b, n), n)

\* a - b - borrow modulo 256^Len(a); b has the length of a
RECURSIVE BSubB(_, _, _)
BSubB(a, b, borrow) ==
    IF a = <<>> THEN <<>>
    ELSE LET t == a[1] - b[1] - borrow
         IN  <<(t + 256) % 256>> \o BSubB(Tail(a), Tail(b), IF t < 0 THEN 1 ELSE 0)

\* a - b modulo 256^n: what a register of n bytes holds after reg_write(a - b)
BSub(a, b, n) == BSubB(BResize(a, n), BResize(b, n), 0)

\* bit i (from 0) of b
BBit(b, i) == (b[(i \div 8) + 1] \div Pow2(i % 8)) % 2

\* 2 * b + bit modulo 256^Len(b)
RECURSIVE BShl1(_, _)
BShl1(b, bit) ==
    IF b = <<>> THEN <<>>
    ELSE LET t == 2 * b[1] + bit
         IN  <<t % 256>> \o BShl1(Tail(b), t \div 256)

\* a ^ (1 << i)
BFlipBit(b, i) ==
    [k \in 1..Len(b) |->
        IF k = (i \div 8) + 1
        THEN IF BBit(b, i) = 1 THEN b[k] - Pow2(i % 8) ELSE b[k] + Pow2(i % 8)
        ELSE b[k]]

\* One step of binary long division by v # 0: the remainder r so far takes one
\* more bit of the dividend; <<the new remainder, the quotient's bit>>
BDivBit(r, v, bit) ==
    LET r2 == BShl1(r, bit)
    IN  IF BLess(r2, v) THEN <<r2, 0>> ELSE <<BSub(r2, v, Len(r2)), 1>>

\* The steps for the bits i-1..0 of one byte of the dividend, r the remainder
\* and q the quotient's bits so far: <<the new remainder, the quotient's byte>>
RECURSIVE BDivBits(_, _, _, _, _)
BDivBits(r, v, byte, i, q) ==
    IF i = 0 THEN <<r, q>>
    ELSE LET s == BDivBit(r, v, (byte \div Pow2(i - 1)) % 2)
         IN  BDivBits(s[1], v, byte, i - 1, 2 * q + s[2])

\* Eight steps, for one byte of the dividend from its top bit down
BDivByte(r, v, byte) == BDivBits(r, v, byte, 8, 0)

\* Long division of the bytes 1..k of n by v # 0, r the remainder of the bytes
\* above k: <<the quotient's bytes k..1 (most significant first), n % v>>
RECURSIVE BDivFrom(_, _, _, _)
BDivFrom(n, v, k, r) ==
    IF k = 0 THEN <<<<>>, r>>
    ELSE LET s == BDivByte(r, v, n[k])
             q == <<s[2]>>
             rest == BDivFrom(n, v, k - 1, s[1])
         IN  <<q \o rest[1], rest[2]>>

\* <<n // v, n % v>> for v # 0
BDivMod(n, v) ==
    LET d == BDivFrom(n, v, Len(n), BZero(Len(v) + 1))
    IN  <<[k \in 1..Len(n) |-> d[1][Len(n) + 1 - k]], d[2]>>

\* Python's n % v on unsigned integers
BMod(n, v) == BResize(BDivMod(n, v)[2], Len(v))

\* (hi << (8 * Len(lo))) + lo
BConcat(hi, lo) == lo \o hi

\* the 64-bit value of a small natural
U64(x) == to_bytes(x, 8)

\* ------------------------------------------------------------------------
\* Contracts, registers, instructions
\* ------------------------------------------------------------------------
\* the contract classes: X86UnicornCond, X86UnicornNull, X86UnicornNullFault,
\* x86UnicornOOO, X86UnicornDivOverflow, X86MeltdownModel, X86GPOOOModel
Contracts ==
    {"Cond", "CondBpas", "Null", "NullFault", "OOO", "DivOverflow", "Meltdown", "GP"}
\* the contracts without a fault handler of their own
CondFamily == {"Cond", "CondBpas"}
NullFamily == {"Null", "NullFault"}
OOOFamily == {"OOO", "DivOverflow", "Meltdown", "GP"}

\* operands of the instruction abstraction (interfaces.RegisterOperand,
\* MemoryOperand, FlagsOperand); the value of a memory operand is its text,
\* cut into register names and the separator characters
RegOp(value, width, src, dest, implicit) ==
    [kind |-> "REG", value |-> <<value>>, width |-> width, src |-> src, dest |-> dest,
     implicit |-> implicit, read_flags |-> <<>>, write_flags |-> <<>>]
MemOp(value, width, src, dest, implicit) ==
    [kind |-> "MEM", value |-> value, width |-> width, src |-> src, dest |-> dest,
     implicit |-> implicit, read_flags |-> <<>>, write_flags |-> <<>>]
FlagsOp(read_flags, write_flags) ==
    [kind |-> "FLAGS", value |-> <<>>, width |-> 0, src |-> read_flags # <<>>,
     dest |-> write_flags # <<>>, implicit |-> TRUE,
     read_flags |-> read_flags, write_flags |-> write_flags]

\* an instruction of the test case: its name and operands, its place and its bytes
Instr(name, address, code, size, operands) ==
    [name |-> name, address |-> address, code |-> code, size |-> size,
     operands |-> operands]

NoInstr == Instr("", 0, <<>>, 0, <<>>)

\* ------------------------------------------------------------------------
\* X86UnicornCond: the decoding tables
\* ------------------------------------------------------------------------
\* f & FLAG != 0
FlagSet(f, flag) == BitAnd(f, flag) # 0

\* code[from:] of a Python byte array (from counted from 0)
SliceFrom(c, from) == SubSeq(c, from + 1, Len(c))

\* the keys of X86UnicornCond.multibyte_jmp: 0x80..0x8F
multibyte_jmp_keys == 128..143

\* X86UnicornCond.multibyte_jmp[c[1]](c, f, r), for c[1] among the keys
multibyte_jmp(c, f, r) ==
    CASE c[2] = 128 -> <<SliceFrom(c, 2), FlagSet(f, FLAGS_OF), FALSE>>
      [] c[2] = 129 -> <<SliceFrom(c, 2), ~FlagSet(f, FLAGS_OF), FALSE>>
      [] c[2] = 130 -> <<SliceFrom(c, 2), FlagSet(f, FLAGS_CF), FALSE>>
      [] c[2] = 131 -> <<SliceFrom(c, 2), ~FlagSet(f, FLAGS_CF), FALSE>>
      [] c[2] = 132 -> <<SliceFrom(c, 2), FlagSet(f, FLAGS_ZF), FALSE>>
      [] c[2] = 133 -> <<SliceFrom(c, 2), ~FlagSet(f, FLAGS_ZF), FALSE>>
      [] c[2] = 134 -> <<SliceFrom(c, 2), FlagSet(f, FLAGS_CF) \/ FlagSet(f, FLAGS_ZF), FALSE>>
      [] c[2] = 135 -> <<SliceFrom(c, 2), ~FlagSet(f, FLAGS_CF) /\ ~FlagSet(f, FLAGS_ZF), FALSE>>
      [] c[2] = 136 -> <<SliceFrom(c, 2), FlagSet(f, FLAGS_SF), FALSE>>
      [] c[2] = 137 -> <<SliceFrom(c, 2), ~FlagSet(f, FLAGS_SF), FALSE>>
      [] c[2] = 138 -> <<SliceFrom(c, 2), FlagSet(f, FLAGS_PF), FALSE>>
      [] c[2] = 139 -> <<SliceFrom(c, 2), ~FlagSet(f, FLAGS_PF), FALSE>>
      [] c[2] = 140 -> <<SliceFrom(c, 2),
                         (~FlagSet(f, FLAGS_SF)) # (~FlagSet(f, FLAGS_OF)), FALSE>>
      [] c[2] = 141 -> <<SliceFrom(c, 2),
                         (~FlagSet(f, FLAGS_SF)) = (~FlagSet(f, FLAGS_OF)), FALSE>>
      [] c[2] = 142 -> <<SliceFrom(c, 2),
                         FlagSet(f, FLAGS_ZF)
                         \/ (~FlagSet(f, FLAGS_SF)) # (~FlagSet(f, FLAGS_OF)), FALSE>>
      [] c[2] = 143 -> <<SliceFrom(c, 2),
                         ~FlagSet(f, FLAGS_ZF)
                         /\ (~FlagSet(f, FLAGS_SF)) = (~FlagSet(f, FLAGS_OF)), FALSE>>

\* the keys of X86UnicornCond.jumps: 0x70..0x7F, 0xE0..0xE3, 0x0F
jumps_keys == (112..127) \cup (224..227) \cup {15}

\* X86UnicornCond.jumps[c[0]](c, f, r), for c[0] among the keys:
\* <<the bytes of the target, will_jump, is_loop>>
jumps(c, f, r) ==
    CASE c[1] = 112 -> <<SliceFrom(c, 1), FlagSet(f, FLAGS_OF), FALSE>>
      [] c[1] = 113 -> <<SliceFrom(c, 1), ~FlagSet(f, FLAGS_OF), FALSE>>
      [] c[1] = 114 -> <<SliceFrom(c, 1), FlagSet(f, FLAGS_CF), FALSE>>
      [] c[1] = 115 -> <<SliceFrom(c, 1), ~FlagSet(f, FLAGS_CF), FALSE>>
      [] c[1] = 116 -> <<SliceFrom(c, 1), FlagSet(f, FLAGS_ZF), FALSE>>
      [] c[1] = 117 -> <<SliceFrom(c, 1), ~FlagSet(f, FLAGS_ZF), FALSE>>
      [] c[1] = 118 -> <<SliceFrom(c, 1), FlagSet(f, FLAGS_CF) \/ FlagSet(f, FLAGS_ZF), FALSE>>
      [] c[1] = 119 -> <<SliceFrom(c, 1), ~FlagSet(f, FLAGS_CF) /\ ~FlagSet(f, FLAGS_ZF), FALSE>>
      [] c[1] = 120 -> <<SliceFrom(c, 1), FlagSet(f, FLAGS_SF), FALSE>>
      [] c[1] = 121 -> <<SliceFrom(c, 1), ~FlagSet(f, FLAGS_SF), FALSE>>
      [] c[1] = 122 -> <<SliceFrom(c, 1), FlagSet(f, FLAGS_PF), FALSE>>
      [] c[1] = 123 -> <<SliceFrom(c, 1), ~FlagSet(f, FLAGS_PF), FALSE>>
      [] c[1] = 124 -> <<SliceFrom(c, 1),
                         (~FlagSet(f, FLAGS_SF)) # (~FlagSet(f, FLAGS_OF)), FALSE>>
      [] c[1] = 125 -> <<SliceFrom(c, 1),
                         (~FlagSet(f, FLAGS_SF)) = (~FlagSet(f, FLAGS_OF)), FALSE>>
      [] c[1] = 126 -> <<SliceFrom(c, 1),
                         FlagSet(f, FLAGS_ZF)
                         \/ (~FlagSet(f, FLAGS_SF)) # (~FlagSet(f, FLAGS_OF)), FALSE>>
      [] c[1] = 127 -> <<SliceFrom(c, 1),
                         ~FlagSet(f, FLAGS_ZF)
                         /\ (~FlagSet(f, FLAGS_SF)) = (~FlagSet(f, FLAGS_OF)), FALSE>>
      [] c[1] = 224 -> <<SliceFrom(c, 1), r # U64(1) /\ ~FlagSet(f, FLAGS_ZF), TRUE>>
      [] c[1] = 225 -> <<SliceFrom(c, 1), r # U64(1) /\ FlagSet(f, FLAGS_ZF), TRUE>>
      [] c[1] = 226 -> <<SliceFrom(c, 1), r # U64(1), TRUE>>
      [] c[1] = 227 -> <<SliceFrom(c, 1), r = U64(0), FALSE>>
      [] c[1] = 15 -> IF c[2] \in multibyte_jmp_keys
                      THEN multibyte_jmp(c, f, r)
                      ELSE <<<<0>>, FALSE, FALSE>>

\* X86UnicornCond.decode: <<target, will_jump, is_loop>>
decode(code, flags, rcx) ==
    LET t == IF code[1] \in jumps_keys
             THEN jumps(code, flags, rcx)
             ELSE <<<<0>>, FALSE, FALSE>>
    IN  IF Len(t[1]) = 1
        THEN <<t[1][1], t[2], t[3]>>
        ELSE <<from_bytes(t[1]), t[2], t[3]>>

\* ------------------------------------------------------------------------
\* The state of one model instance
\* ------------------------------------------------------------------------
VARIABLES
    contract,                  \* the contract class of the instance
    nesting,                   \* model.nesting, the configured depth limit
    loaded,                    \* an input has been loaded
    steps,                     \* instructions traced in the current run
    checkpoints,               \* model.checkpoints
    store_logs,                \* model.store_logs
    in_speculation,            \* model.in_speculation
    regs,                      \* the emulator's registers RAX, RBX, RCX, RDX
    flags,                     \* the emulator's EFLAGS
    rip,                       \* the emulator's RIP
    mem,                       \* the emulator's memory, the faulty region
    faulty_protected,          \* the faulty region is protected
    injection_pending,         \* X86UnicornNull.injection_pending
    instruction_address,       \* X86UnicornNull.instruction_address
    dependencies,              \* x86UnicornOOO.dependencies
    dependency_checkpoints,    \* x86UnicornOOO.dependency_checkpoints
    next_instr_address,        \* x86UnicornOOO.next_instr_address
    curr_instr_address,        \* model.curr_instr_address
    last_faulty_instr_address, \* model.last_faulty_instr_address
    pending_fault,             \* model.pending_fault
    previous_context,          \* model.previous_context
    stopped,                   \* the last hook called emulator.emu_stop()
    div_value,                 \* X86UnicornDivOverflow.div_value
    current_instruction,       \* model.current_instruction
    err,                       \* the exception that ended the run, or "none"
    ret,                       \* what the last speculate_fault or rollback returned
    call,                      \* the last operation and its arguments
    pre                        \* the state the last operation started from

mvars == <<contract, nesting, loaded, steps, checkpoints, store_logs, in_speculation,
           regs, flags, rip, mem, faulty_protected, injection_pending,
           instruction_address, dependencies, dependency_checkpoints,
           next_instr_address, curr_instr_address, last_faulty_instr_address,
           pending_fault, previous_context, stopped, div_value, current_instruction,
           err, ret>>

vars == <<mvars, call, pre>>

\* the state as one record, on which the methods of the source operate
State ==
    [contract |-> contract, nesting |-> nesting, loaded |-> loaded, steps |-> steps,
     checkpoints |-> checkpoints, store_logs |-> store_logs,
     in_speculation |-> in_speculation, regs |-> regs, flags |-> flags, rip |-> rip,
     mem |-> mem, faulty_protected |-> faulty_protected,
     injection_pending |-> injection_pending,
     instruction_address |-> instruction_address, dependencies |-> dependencies,
     dependency_checkpoints |-> dependency_checkpoints,
     next_instr_address |-> next_instr_address,
     curr_instr_address |-> curr_instr_address,
     last_faulty_instr_address |-> last_faulty_instr_address,
     pending_fault |-> pending_fault, previous_context |-> previous_context,
     stopped |-> stopped, div_value |-> div_value,
     current_instruction |-> current_instruction, err |-> err, ret |-> ret]

\* what an operation found when it started: the state it can read or change
Before ==
    [checkpoints |-> checkpoints, store_logs |-> store_logs, regs |-> regs,
     flags |-> flags, mem |-> mem, injection_pending |-> injection_pending,
     dependencies |-> dependencies,
     dependency_checkpoints |-> dependency_checkpoints,
     faulty_protected |-> faulty_protected]

\* the operation `c` took the model from the current state to the state `t`
Becomes(t, c) ==
    /\ contract' = t.contract
    /\ nesting' = t.nesting
    /\ loaded' = t.loaded
    /\ steps' = t.steps
    /\ checkpoints' = t.checkpoints
    /\ store_logs' = t.store_logs
    /\ in_speculation' = t.in_speculation
    /\ regs' = t.regs
    /\ flags' = t.flags
    /\ rip' = t.rip
    /\ mem' = t.mem
    /\ faulty_protected' = t.faulty_protected
    /\ injection_pending' = t.injection_pending
    /\ instruction_address' = t.instruction_address
    /\ dependencies' = t.dependencies
    /\ dependency_checkpoints' = t.dependency_checkpoints
    /\ next_instr_address' = t.next_instr_address
    /\ curr_instr_address' = t.curr_instr_address
    /\ last_faulty_instr_address' = t.last_faulty_instr_address
    /\ pending_fault' = t.pending_fault
    /\ previous_context' = t.previous_context
    /\ stopped' = t.stopped
    /\ div_value' = t.div_value
    /\ current_instruction' = t.current_instruction
    /\ err' = t.err
    /\ ret' = t.ret
    /\ call' = c
    /\ pre' = Before

\* the last operation: its name and the arguments it was given
Call(op, instr, access, address, size, errno) ==
    [op |-> op, instr |-> instr, access |-> access, address |-> address,
     size |-> size, errno |-> errno]

\* ------------------------------------------------------------------------
\* The emulator and the generic model base (model.UnicornSpec)
\* ------------------------------------------------------------------------
\* a register name of the emulator: the 64-bit register that holds it, the
\* offset of its first byte and its size in bytes
RegPart(name) ==
    CASE name \in {"RAX", "RBX", "RCX", "RDX"} -> [full |-> name, offset |-> 0, size |-> 8]
      [] name = "EAX" -> [full |-> "RAX", offset |-> 0, size |-> 4]
      [] name = "EBX" -> [full |-> "RBX", offset |-> 0, size |-> 4]
      [] name = "ECX" -> [full |-> "RCX", offset |-> 0, size |-> 4]
      [] name = "EDX" -> [full |-> "RDX", offset |-> 0, size |-> 4]
      [] name = "AX" -> [full |-> "RAX", offset |-> 0, size |-> 2]
      [] name = "BX" -> [full |-> "RBX", offset |-> 0, size |-> 2]
      [] name = "CX" -> [full |-> "RCX", offset |-> 0, size |-> 2]
      [] name = "DX" -> [full |-> "RDX", offset |-> 0, size |-> 2]
      [] name = "AL" -> [full |-> "RAX", offset |-> 0, size |-> 1]
      [] name = "BL" -> [full |-> "RBX", offset |-> 0, size |-> 1]
      [] name = "CL" -> [full |-> "RCX", offset |-> 0, size |-> 1]
      [] name = "DL" -> [full |-> "RDX", offset |-> 0, size |-> 1]
      [] name = "AH" -> [full |-> "RAX", offset |-> 1, size |-> 1]

\* emulator.reg_read: the unsigned value of the register
reg_read(s, name) ==
    LET p == RegPart(name)
    IN  SubSeq(s.regs[p.full], p.offset + 1, p.offset + p.size)

\* emulator.reg_write: the value modulo the register's width; the other bytes
\* of the 64-bit register stay
reg_write(s, name, value) ==
    LET p == RegPart(name)
        old == s.regs[p.full]
        v == BResize(value, p.size)
    IN  [s EXCEPT !.regs[p.full] =
            SubSeq(old, 1, p.offset) \o v \o SubSeq(old, p.offset + p.size + 1, 8)]

\* emulator.context_save(): the registers, not the memory
context_save(s) == [regs |-> s.regs, flags |-> s.flags, rip |-> s.rip]

\* emulator.mem_read(address, size)
mem_read(s, address, size) == [i \in 1..size |-> s.mem[address + i - 1]]

\* emulator.mem_write(address, bytes)
mem_write(s, address, bytes) ==
    [s EXCEPT !.mem = [a \in DOMAIN s.mem |->
                        IF a >= address /\ a < address + Len(bytes)
                        THEN bytes[a - address + 1]
                        ELSE s.mem[a]]]

\* an exception leaves the method: the run ends with it
Raise(s, exception) == [s EXCEPT !.err = exception]

\* UnicornSpec.checkpoint: push the context with its resume address, open a
\* store log for it
Base_checkpoint(s, next_instruction) ==
    [s EXCEPT !.checkpoints = Append(@, [context |-> context_save(s),
                                         next_instruction |-> next_instruction]),
              !.store_logs = Append(@, <<>>),
              !.in_speculation = TRUE]

\* undo the overwrites of a store log, the latest first
RECURSIVE UndoStores(_, _)
UndoStores(s, log) ==
    IF log = <<>> THEN s
    ELSE UndoStores(mem_write(s, log[Len(log)][1], log[Len(log)][2]),
                    SubSeq(log, 1, Len(log) - 1))

\* UnicornSpec.rollback: pop the latest checkpoint, restore its context, undo
\* its store log and return its resume address
Base_rollback(s) ==
    LET top == s.checkpoints[Len(s.checkpoints)]
        log == s.store_logs[Len(s.store_logs)]
        s1 == [s EXCEPT !.checkpoints = SubSeq(@, 1, Len(@) - 1),
                        !.store_logs = SubSeq(@, 1, Len(@) - 1),
                        !.in_speculation = Len(s.checkpoints) > 1,
                        !.regs = top.context.regs,
                        !.flags = top.context.flags,
                        !.rip = top.next_instruction,
                        !.ret = top.next_instruction]
    IN  UndoStores(s1, log)

\* ------------------------------------------------------------------------
\* The sandbox and the test cases (the collaborators' side of the interface)
\* ------------------------------------------------------------------------
\* the faulty region follows the main region: sandbox_base + MAIN_REGION_SIZE
faulty_region == 8
\* model.code_end: the address after the last instruction of a test case
code_end == 64
\* model.FAULTY_REGION_SIZE: the faulty region runs to the end of the memory
FAULTY_REGION_SIZE == MemSize - faulty_region

\* ------------------------------------------------------------------------
\* x86UnicornOOO: checkpoint and rollback
\* ------------------------------------------------------------------------
\* what the name `copy` is bound to by the imports of the module: line 10,
\* `from copy import copy`, binds the function, not the module
copy_binding == "function"

\* checkpoint with its two statements in the other order: the inherited
\* checkpoint is pushed before the snapshot of the dependencies is taken
OOO_checkpoint_base_first(s, next_instruction) ==
    IF copy_binding = "module"
    THEN [Base_checkpoint(s, next_instruction)
             EXCEPT !.dependency_checkpoints = Append(@, s.dependencies)]
    ELSE Raise(Base_checkpoint(s, next_instruction), "AttributeError")

\* x86UnicornOOO.checkpoint: copy.copy(self.dependencies) looks the attribute
\* `copy` up in the object bound to `copy`; a function has none
OOO_checkpoint(s, next_instruction) ==
    IF copy_binding = "module"
    THEN Base_checkpoint(
             [s EXCEPT !.dependency_checkpoints = Append(@, s.dependencies)],
             next_instruction)
    ELSE Raise(s, "AttributeError")

\* x86UnicornOOO.rollback
OOO_rollback(s) ==
    IF s.dependency_checkpoints = <<>>
    THEN Raise(s, "IndexError")
    ELSE Base_rollback(
             [s EXCEPT !.dependencies =
                           s.dependency_checkpoints[Len(s.dependency_checkpoints)],
                       !.dependency_checkpoints = SubSeq(@, 1, Len(@) - 1)])

\* model.checkpoint and model.rollback of the instance's class
checkpoint(s, next_instruction) ==
    IF s.contract \in OOOFamily
    THEN OOO_checkpoint(s, next_instruction)
    ELSE Base_checkpoint(s, next_instruction)

rollback(s) ==
    IF s.contract \in OOOFamily THEN OOO_rollback(s) ELSE Base_rollback(s)

\* ------------------------------------------------------------------------
\* X86UnicornCond
\* ------------------------------------------------------------------------
\* The instruction hook without its depth guard: it speculates on a branch
\* whatever the depth of the stack
Cond_speculate_unbounded(s, address, size, code) ==
    IF size > MAX_INSTR_SIZE THEN s
    ELSE
      LET rcx == reg_read(s, "RCX")
          d == decode(code, s.flags, rcx)
          target == d[1]
          will_jump == d[2]
          is_loop == d[3]
      IN  IF target = 0 THEN s
          ELSE
            LET s1 == IF is_loop THEN reg_write(s, "RCX", BSub(rcx, U64(1), 8)) ELSE s
                next_instr == IF will_jump THEN address + size + target
                                           ELSE address + size
                s2 == checkpoint(s1, next_instr)
            IN  IF will_jump
                THEN [s2 EXCEPT !.rip = address + size]
                ELSE [s2 EXCEPT !.rip = address + size + target]

\* The instruction hook with a predictor that is right: the program counter
\* is set to the address the branch goes to
Cond_speculate_predicted(s, address, size, code) ==
    IF Len(s.checkpoints) >= s.nesting THEN s
    ELSE IF size > MAX_INSTR_SIZE THEN s
    ELSE
      LET rcx == reg_read(s, "RCX")
          d == decode(code, s.flags, rcx)
          target == d[1]
          will_jump == d[2]
          is_loop == d[3]
      IN  IF target = 0 THEN s
          ELSE
            LET s1 == IF is_loop THEN reg_write(s, "RCX", BSub(rcx, U64(1), 8)) ELSE s
                next_instr == IF will_jump THEN address + size + target
                                           ELSE address + size
                s2 == checkpoint(s1, next_instr)
            IN  IF will_jump
                THEN [s2 EXCEPT !.rip = address + size + target]
                ELSE [s2 EXCEPT !.rip = address + size]

\* X86UnicornCond.speculate_instruction; code is emulator.mem_read(address, size)
Cond_speculate_instruction(s, address, size, code) ==
    IF Len(s.checkpoints) >= s.nesting THEN s
    ELSE IF size > MAX_INSTR_SIZE THEN s
    ELSE
      LET rcx == reg_read(s, "RCX")
          d == decode(code, s.flags, rcx)
          target == d[1]
          will_jump == d[2]
          is_loop == d[3]
      IN  IF target = 0 THEN s
          ELSE
            LET s1 == IF is_loop THEN reg_write(s, "RCX", BSub(rcx, U64(1), 8)) ELSE s
                next_instr == IF will_jump THEN address + size + target
                                           ELSE address + size
                s2 == checkpoint(s1, next_instr)
            IN  IF will_jump
                THEN [s2 EXCEPT !.rip = address + size]
                ELSE [s2 EXCEPT !.rip = address + size + target]

\* X86UnicornCond.speculate_mem_access
Cond_speculate_mem_access(s, access, address, size) == s

\* ------------------------------------------------------------------------
\* X86UnicornCondBpas
\* ------------------------------------------------------------------------
\* the hooks of the generic bypass policy (model.UnicornBpas), which keeps
\* its own record of the last store: none of the fields of the contracts
\* of this module is touched
Bpas_speculate_instruction(s, address, size) == s

Bpas_speculate_mem_access(s, access, address, size) == s

\* X86UnicornCondBpas.speculate_instruction: the hook of the branch
\* contract, then the hook of the bypass policy
CondBpas_speculate_instruction(s, address, size, code) ==
    LET s1 == Cond_speculate_instruction(s, address, size, code)
    IN  Bpas_speculate_instruction(s1, address, size)

\* X86UnicornCondBpas.speculate_mem_access: the hook of the bypass policy
CondBpas_speculate_mem_access(s, access, address, size) ==
    Bpas_speculate_mem_access(s, access, address, size)

\* ------------------------------------------------------------------------
\* X86UnicornNull and X86UnicornNullFault
\* ------------------------------------------------------------------------
\* relevant_faults of X86UnicornNull and of x86UnicornOOO
relevant_faults == {12, 13}

\* the fault handler without the depth guard: injection is armed at any depth
Null_speculate_fault_unbounded(s, errno) ==
    IF errno \notin relevant_faults THEN [s EXCEPT !.ret = 0]
    ELSE [s EXCEPT !.injection_pending = TRUE,
                   !.faulty_protected = FALSE,
                   !.ret = s.instruction_address]

\* X86UnicornNull.speculate_fault
Null_speculate_fault(s, errno) ==
    IF errno \notin relevant_faults THEN [s EXCEPT !.ret = 0]
    ELSE IF Len(s.checkpoints) >= s.nesting THEN [s EXCEPT !.ret = 0]
    ELSE [s EXCEPT !.injection_pending = TRUE,
                   !.faulty_protected = FALSE,
                   !.ret = s.instruction_address]

\* X86UnicornNull.speculate_instruction
Null_speculate_instruction(s, address, size) ==
    [s EXCEPT !.instruction_address = address]

\* the memory hook without the test of the access type: a store is injected
\* like a load
Null_speculate_any_access(s, access, address, size) ==
    IF ~s.injection_pending THEN s
    ELSE
      LET s1 == [s EXCEPT !.injection_pending = FALSE]
          s2 == checkpoint(s1, s1.instruction_address)
          s3 == [s2 EXCEPT !.store_logs[Len(s2.store_logs)] =
                    Append(@, <<address, mem_read(s2, address, NULL_LOG_BYTES)>>)]
      IN  mem_write(s3, address, BZero(size))

\* X86UnicornNull.speculate_mem_access
Null_speculate_mem_access(s, access, address, size) ==
    IF ~s.injection_pending THEN s
    ELSE
      LET s1 == [s EXCEPT !.injection_pending = FALSE]
      IN  IF access = UC_MEM_WRITE THEN s1
          ELSE
            LET s2 == checkpoint(s1, s1.instruction_address)
                s3 == [s2 EXCEPT !.store_logs[Len(s2.store_logs)] =
                          Append(@, <<address, mem_read(s2, address, NULL_LOG_BYTES)>>)]
            IN  mem_write(s3, address, BZero(size))

\* X86UnicornNullFault.speculate_mem_access
NullFault_speculate_mem_access(s, access, address, size) ==
    IF ~s.injection_pending THEN s
    ELSE
      LET s1 == [s EXCEPT !.injection_pending = FALSE]
      IN  IF access = UC_MEM_WRITE THEN s1
          ELSE
            LET s2 == checkpoint(s1, code_end)
                s3 == [s2 EXCEPT !.store_logs[Len(s2.store_logs)] =
                          Append(@, <<address, mem_read(s2, address, NULL_LOG_BYTES)>>)]
            IN  mem_write(s3, address, BZero(size))

\* ------------------------------------------------------------------------
\* Operands: register names and the text of memory operands
\* ------------------------------------------------------------------------
Range(f) == {f[i] : i \in DOMAIN f}

\* the keys of X86TargetDesc.gpr_normalized that occur in the test cases
gpr_normalized_keys ==
    {"RAX", "EAX", "AX", "AL", "AH", "RBX", "EBX", "BX", "BL",
     "RCX", "ECX", "CX", "CL", "RDX", "EDX", "DX", "DL", "R14"}

\* X86TargetDesc.gpr_normalized: one name for all the aliases of a register
gpr_normalized(name) ==
    CASE name \in {"RAX", "EAX", "AX", "AL", "AH"} -> "A"
      [] name \in {"RBX", "EBX", "BX", "BL"} -> "B"
      [] name \in {"RCX", "ECX", "CX", "CL"} -> "C"
      [] name \in {"RDX", "EDX", "DX", "DL"} -> "D"
      [] name = "R14" -> "14"

\* re.split(r'\+|-|\*| ', value): the pieces between the separators, an
\* empty string between two separators that touch
RECURSIVE re_split_from(_, _)
re_split_from(value, piece) ==
    IF value = <<>> THEN <<piece>>
    ELSE IF value[1] \in {"+", "-", "*", " "}
         THEN <<piece>> \o re_split_from(Tail(value), "")
         ELSE re_split_from(Tail(value), value[1])

re_split(value) == re_split_from(value, "")

\* the registers named in the text of a memory operand, normalized
MemOpRegisters(op) ==
    {gpr_normalized(sub_op) :
        sub_op \in {x \in Range(re_split(op.value)) : x # "" /\ x \in gpr_normalized_keys}}

\* Instruction.get_all_operands(), get_dest_operands(True), get_mem_operands(),
\* get_implicit_mem_operands() and the explicit operands, as index sets
AllOperands(instr) == DOMAIN instr.operands
DestOperands(instr) == {i \in DOMAIN instr.operands : instr.operands[i].dest}
MemOperands(instr) ==
    {i \in DOMAIN instr.operands :
        instr.operands[i].kind = "MEM" /\ ~instr.operands[i].implicit}
ImplicitMemOperands(instr) ==
    {i \in DOMAIN instr.operands :
        instr.operands[i].kind = "MEM" /\ instr.operands[i].implicit}
ExplicitOperands(instr) ==
    {i \in DOMAIN instr.operands : ~instr.operands[i].implicit}

\* reg_src_operands and reg_dest_operands of the instruction hooks
reg_src_operands(instr) ==
    UNION {LET op == instr.operands[i]
           IN  CASE op.kind = "REG" ->
                        IF op.src THEN {gpr_normalized(op.value[1])} ELSE {}
                 [] op.kind = "MEM" -> MemOpRegisters(op)
                 [] op.kind = "FLAGS" -> Range(op.read_flags)
           : i \in AllOperands(instr)}

reg_dest_operands(instr) ==
    UNION {LET op == instr.operands[i]
           IN  CASE op.kind = "REG" ->
                        IF op.dest THEN {gpr_normalized(op.value[1])} ELSE {}
                 [] op.kind = "MEM" -> {}
                 [] op.kind = "FLAGS" -> Range(op.write_flags)
           : i \in AllOperands(instr)}

\* ------------------------------------------------------------------------
\* x86UnicornOOO
\* ------------------------------------------------------------------------
\* the names speculate_fault adds to the dependencies: the destination
\* registers and the written flags of the faulting instruction
fault_destinations(instr) ==
    UNION {LET op == instr.operands[i]
           IN  CASE op.kind = "REG" -> {gpr_normalized(op.value[1])}
                 [] op.kind = "FLAGS" -> Range(op.write_flags)
                 [] op.kind = "MEM" -> {}
           : i \in DestOperands(instr)}

\* x86UnicornOOO.speculate_fault
OOO_speculate_fault(s, errno) ==
    IF errno \notin relevant_faults THEN [s EXCEPT !.ret = 0]
    ELSE IF Len(s.checkpoints) >= s.nesting THEN [s EXCEPT !.ret = 0]
    ELSE
      LET s1 == checkpoint(s, code_end)
      IN  IF s1.err # "none" THEN s1
          ELSE
            LET s2 == [s1 EXCEPT !.dependencies =
                          @ \cup fault_destinations(s1.current_instruction)]
            IN  IF s2.next_instr_address >= code_end
                THEN [s2 EXCEPT !.ret = 0]
                ELSE [s2 EXCEPT !.ret = s2.next_instr_address]

\* the two sides of the merge conflict left in x86UnicornOOO
MergeSides == {"HEAD", "747c2bd"}

\* the dependency tracking shared by the instruction hooks (lines 385-421):
\* prune the overwritten names; skip a dependent instruction and taint its
\* destinations
OOO_track(s, address, size) ==
    LET srcs == reg_src_operands(s.current_instruction)
        dests == reg_dest_operands(s.current_instruction)
        is_dependent == srcs \cap s.dependencies # {}
        s1 == [s EXCEPT !.dependencies = @ \ (dests \ srcs)]
    IN  IF ~is_dependent THEN s1
        ELSE [s1 EXCEPT !.dependencies = @ \cup dests, !.rip = address + size]

\* the hook without the guard of the window and with the test of the
\* dependence inverted: an instruction that is not dependent is skipped and
\* taints its destinations
OOO_speculate_independent(s, address, size, side) ==
    LET s1 == [s EXCEPT !.next_instr_address = address + size]
        srcs == reg_src_operands(s1.current_instruction)
        dests == reg_dest_operands(s1.current_instruction)
    IN  IF srcs \cap s1.dependencies # {} THEN s1
        ELSE [s1 EXCEPT !.dependencies = @ \cup dests, !.rip = address + size]

\* x86UnicornOOO.speculate_instruction, with the guard of one side of the conflict
OOO_speculate_instruction(s, address, size, side) ==
    LET s1 == [s EXCEPT !.next_instr_address = address + size]
    IN  IF side = "HEAD"
        THEN IF ~s1.in_speculation \/ s1.dependencies = {} THEN s1
             ELSE OOO_track(s1, address, size)
        ELSE IF Cardinality(s1.dependencies) = 0 THEN s1
             ELSE IF s1.last_faulty_instr_address = s1.curr_instr_address THEN s1
             ELSE OOO_track(s1, address, size)

\* UnicornSpec.trace_mem_access, which x86UnicornOOO.trace_mem_access ends
\* with and which side HEAD inherits: the out-of-order contracts override no
\* speculate_mem_access, and the state of the contract stays as it is
Base_trace_mem_access(s, access, address, size) == s

\* x86UnicornOOO.trace_mem_access, present on side 747c2bd of the second
\* conflict only (lines 423-441): for an access to the faulty region outside
\* speculation the condition goes on to evaluate UC_ERR_EXCEPTION, a name
\* that nothing binds (line 13 imports Uc, UC_MEM_WRITE, UC_ARCH_X86 and
\* UC_MODE_64 from unicorn), so lines 433-437 are never reached
OOO_trace_mem_access(s, access, address, size, side) ==
    IF side = "HEAD" THEN Base_trace_mem_access(s, access, address, size)
    ELSE IF /\ address >= faulty_region
            /\ address < faulty_region + FAULTY_REGION_SIZE
            /\ ~s.in_speculation
    THEN Raise(s, "NameError")
    ELSE Base_trace_mem_access(s, access, address, size)

\* ------------------------------------------------------------------------
\* X86UnicornDivOverflow
\* ------------------------------------------------------------------------
\* 0xff, 0xffff, 0xffffffff, 0xffffffffffffffff: n bytes of ones
Ones(n) == [i \in 1..n |-> 255]

\* the registers of the DIV branch (lines 486-522) per operand width: the
\* dividend's low and high part, the quotient's and the remainder's register,
\* and the bytes of the mask of the quotient
Div_registers(width) ==
    CASE width = 64 -> [a |-> "RAX", d |-> "RDX", quotient |-> "RAX", remainder |-> "RDX", n |-> 8]
      [] width = 32 -> [a |-> "EAX", d |-> "EDX", quotient |-> "EAX", remainder |-> "EDX", n |-> 4]
      [] width = 16 -> [a |-> "AX", d |-> "DX", quotient |-> "AX", remainder |-> "DX", n |-> 2]
      [] width = 8 -> [a |-> "AX", d |-> "", quotient |-> "AL", remainder |-> "AH", n |-> 1]

\* the DIV branch of speculate_fault (lines 486-522): the quotient, reduced
\* modulo the mask of ones, and the remainder written to the registers of the
\* operand width
Div_synthesize(s, width, value) ==
    IF width \notin {64, 32, 16, 8} THEN Raise(s, "UnreachableCode")
    ELSE
      LET w == Div_registers(width)
          a == reg_read(s, w.a)
          dividend == IF width = 8 THEN a ELSE BConcat(reg_read(s, w.d), a)
          result == BDivMod(dividend, value)
          trimmed_result == BMod(result[1], Ones(w.n))
          s1 == reg_write(s, w.quotient, trimmed_result)
          s2 == reg_write(s1, w.remainder, BResize(result[2], Len(value)))
      IN  [s2 EXCEPT !.ret = s2.next_instr_address]

\* X86UnicornDivOverflow.speculate_fault
Div_speculate_fault(s, errno) ==
    IF s.current_instruction.name \notin {"DIV", "IDIV"}
    THEN OOO_speculate_fault(s, errno)
    ELSE IF Len(s.checkpoints) >= s.nesting THEN [s EXCEPT !.ret = 0]
    ELSE IF Cardinality(ExplicitOperands(s.current_instruction)) # 1
    THEN Raise(s, "AssertionError")
    ELSE
      LET divider == s.current_instruction.operands[
                         CHOOSE i \in ExplicitOperands(s.current_instruction) : TRUE]
      IN  IF ~divider.src THEN Raise(s, "AssertionError")
          ELSE IF divider.kind \notin {"REG", "MEM"} THEN Raise(s, "UnreachableCode")
          ELSE
            LET value == IF divider.kind = "REG"
                         THEN reg_read(s, divider.value[1])
                         ELSE s.div_value
            IN  IF BIsZero(value) THEN OOO_speculate_fault(s, errno)
                ELSE
                  LET s1 == checkpoint(s, code_end)
                  IN  IF s1.err # "none" THEN s1
                      ELSE IF s1.current_instruction.name = "DIV"
                      THEN Div_synthesize(s1, divider.width, value)
                      ELSE Raise(s1, "UnreachableCode")

\* X86UnicornDivOverflow.trace_mem_access: the value at the address is kept
\* as the divisor of a DIV with a memory operand
Div_trace_mem_access(s, access, address, size, side) ==
    OOO_trace_mem_access([s EXCEPT !.div_value = mem_read(s, address, size)],
                         access, address, size, side)

\* ------------------------------------------------------------------------
\* X86MeltdownModel
\* ------------------------------------------------------------------------
\* X86MeltdownModel.speculate_instruction
Meltdown_speculate_instruction(s, address, size) ==
    [s EXCEPT !.next_instr_address = address + size,
              !.curr_instr_address = address]

\* ------------------------------------------------------------------------
\* X86GPOOOModel
\* ------------------------------------------------------------------------
\* the bounds of the non-canonical addresses: 0x00007fffffffffff and
\* 0xffff800000000000
GP_low == <<255, 255, 255, 255, 255, 127, 0, 0>>
GP_high == <<0, 0, 0, 0, 0, 128, 255, 255>>
\* the bit flipped by the mask 0x1000000000000
GP_MASK_BIT == 48

\* X86GPOOOModel.speculate_fault
GP_speculate_fault(s, errno) ==
    LET s1 == OOO_speculate_fault(s, errno)
    IN  IF s1.err # "none" THEN s1
        ELSE IF errno = GP_FAULT /\ s1.ret # 0
        THEN [s1 EXCEPT !.ret = s1.curr_instr_address]
        ELSE s1

\* the first part of X86GPOOOModel.speculate_instruction (lines 566-587), over
\* the memory operands from the i-th on: <<the state, the hook returned>>
RECURSIVE GP_detect(_, _, _, _)
GP_detect(s, address, mem_ops, i) ==
    IF i > Len(mem_ops) THEN <<s, FALSE>>
    ELSE
      LET registers == re_split(mem_ops[i].value)
      IN  IF Len(registers) > 1 THEN GP_detect(s, address, mem_ops, i + 1)
          ELSE
            LET old == reg_read(s, registers[1])
            IN  IF BLess(GP_low, old) /\ BLess(old, GP_high)
                THEN LET s1 == [s EXCEPT !.pending_fault = GP_FAULT,
                                         !.last_faulty_instr_address = address]
                         s2 == reg_write(s1, registers[1], BFlipBit(old, GP_MASK_BIT))
                     IN  <<[s2 EXCEPT !.previous_context = context_save(s2),
                                      !.stopped = TRUE], TRUE>>
                ELSE GP_detect(s, address, mem_ops, i + 1)

\* the sequence of the indexes in a set, in increasing order
RECURSIVE Sorted(_)
Sorted(S) ==
    IF S = {} THEN <<>>
    ELSE LET m == CHOOSE x \in S : \A y \in S : x <= y
         IN  <<m>> \o Sorted(S \ {m})

\* the second part of X86GPOOOModel.speculate_instruction (lines 589-649)
GP_track(s, address, size) ==
    IF ~s.in_speculation /\ s.dependencies = {} THEN s
    ELSE IF Cardinality(s.dependencies) = 0 THEN s
    ELSE IF s.last_faulty_instr_address = s.curr_instr_address THEN s
    ELSE
      LET instr == s.current_instruction
          srcs == reg_src_operands(instr)
          dests == reg_dest_operands(instr)
          is_dependent == srcs \cap s.dependencies # {}
          s1 == [s EXCEPT !.dependencies = @ \ (dests \ srcs)]
      IN  IF ~is_dependent THEN s1
          ELSE
            LET mem_dependent ==
                    \E i \in MemOperands(instr) :
                        /\ i \notin ImplicitMemOperands(instr)
                        /\ MemOpRegisters(instr.operands[i]) \cap s1.dependencies # {}
            IN  IF ~mem_dependent THEN s1
                ELSE [s1 EXCEPT !.dependencies = @ \cup dests,
                                !.rip = address + size]

\* X86GPOOOModel.speculate_instruction
GP_speculate_instruction(s, address, size) ==
    LET s1 == [s EXCEPT !.next_instr_address = address + size,
                        !.curr_instr_address = address]
        ixs == Sorted(MemOperands(s1.current_instruction))
        mem_ops == [k \in 1..Len(ixs) |-> s1.current_instruction.operands[ixs[k]]]
        detected == GP_detect(s1, address, mem_ops, 1)
    IN  IF detected[2] THEN detected[1]
        ELSE GP_track(detected[1], address, size)

\* ------------------------------------------------------------------------
\* Test cases and inputs
\* ------------------------------------------------------------------------
AllFlags == <<"CF", "PF", "AF", "ZF", "SF", "OF">>

\* an undefined instruction: Unicorn reports more than 15 bytes for it
UndefinedCode == <<116, 2, 0, 0, 0, 0, 0, 0, 0, 0, 0, 0, 0, 0, 0, 0>>

\* conditional jumps and LOOPs with forward, backward and zero displacements,
\* a 0x0F-prefixed instruction that is no jump, a NOP and undefined bytes
CondProgram ==
    {Instr("JZ", 16, <<116, 2>>, 2, <<>>),
     Instr("JZ", 18, <<116, 240>>, 2, <<>>),
     Instr("LOOP", 22, <<226, 4>>, 2, <<>>),
     Instr("LOOP", 24, <<226, 0>>, 2, <<>>),
     Instr("JRCXZ", 28, <<227, 2>>, 2, <<>>),
     Instr("JZ", 30, <<15, 132, 16, 0, 0, 0>>, 6, <<>>),
     Instr("SYSCALL", 36, <<15, 5>>, 2, <<>>),
     Instr("NOP", 38, <<144>>, 1, <<>>),
     Instr("UNDEFINED", 39, UndefinedCode, 16, <<>>)}

\* a load and a store
NullProgram ==
    {Instr("MOV", 16, <<>>, 4,
           <<RegOp("RAX", 64, FALSE, TRUE, FALSE),
             MemOp(<<"R14", " ", "+", " ", "RBX">>, 64, TRUE, FALSE, FALSE)>>),
     Instr("MOV", 20, <<>>, 4,
           <<MemOp(<<"R14", " ", "+", " ", "RBX">>, 64, FALSE, TRUE, FALSE),
             RegOp("RAX", 64, TRUE, FALSE, FALSE)>>)}

\* a load, an instruction that reads its result and writes the flags, one
\* that is independent of both, and a load that ends the test case
OOOProgram ==
    {Instr("MOV", 16, <<>>, 4,
           <<RegOp("RAX", 64, FALSE, TRUE, FALSE),
             MemOp(<<"R14", " ", "+", " ", "RBX">>, 64, TRUE, FALSE, FALSE)>>),
     Instr("ADD", 20, <<>>, 3,
           <<RegOp("RCX", 64, TRUE, TRUE, FALSE),
             RegOp("RAX", 64, TRUE, FALSE, FALSE),
             FlagsOp(<<>>, AllFlags)>>),
     Instr("MOV", 23, <<>>, 3,
           <<RegOp("RDX", 64, FALSE, TRUE, FALSE),
             RegOp("RBX", 64, TRUE, FALSE, FALSE)>>),
     Instr("MOV", 60, <<>>, 4,
           <<RegOp("RCX", 64, FALSE, TRUE, FALSE),
             MemOp(<<"R14", " ", "+", " ", "RBX">>, 64, TRUE, FALSE, FALSE)>>)}

\* the implicit operands of DIV and IDIV
DivImplicit ==
    <<RegOp("RAX", 64, TRUE, TRUE, TRUE), RegOp("RDX", 64, TRUE, TRUE, TRUE),
      FlagsOp(<<>>, AllFlags)>>

\* divisions by a register of each width and by a memory operand
DivProgram ==
    {Instr("DIV", 26, <<>>, 3, <<RegOp("RBX", 64, TRUE, FALSE, FALSE)>> \o DivImplicit),
     Instr("DIV", 29, <<>>, 2, <<RegOp("EBX", 32, TRUE, FALSE, FALSE)>> \o DivImplicit),
     Instr("DIV", 31, <<>>, 3, <<RegOp("BX", 16, TRUE, FALSE, FALSE)>> \o DivImplicit),
     Instr("DIV", 34, <<>>, 2, <<RegOp("BL", 8, TRUE, FALSE, FALSE)>> \o DivImplicit),
     Instr("DIV", 36, <<>>, 4,
           <<MemOp(<<"R14", " ", "+", " ", "RCX">>, 64, TRUE, FALSE, FALSE)>>
           \o DivImplicit),
     Instr("IDIV", 40, <<>>, 3, <<RegOp("RBX", 64, TRUE, FALSE, FALSE)>> \o DivImplicit),
     Instr("MOV", 60, <<>>, 4,
           <<RegOp("RCX", 64, FALSE, TRUE, FALSE),
             MemOp(<<"R14", " ", "+", " ", "RBX">>, 64, TRUE, FALSE, FALSE)>>)}

\* loads through a single base register and through a sum of two registers
GPProgram ==
    {Instr("MOV", 16, <<>>, 3,
           <<RegOp("RAX", 64, FALSE, TRUE, FALSE),
             MemOp(<<"RBX">>, 64, TRUE, FALSE, FALSE)>>),
     Instr("MOV", 19, <<>>, 4,
           <<RegOp("RAX", 64, FALSE, TRUE, FALSE),
             MemOp(<<"RCX", " ", "+", " ", "RBX">>, 64, TRUE, FALSE, FALSE)>>),
     Instr("ADD", 23, <<>>, 3,
           <<RegOp("RCX", 64, TRUE, TRUE, FALSE),
             RegOp("RAX", 64, TRUE, FALSE, FALSE),
             FlagsOp(<<>>, AllFlags)>>)}

Program(c) ==
    CASE c \in CondFamily -> CondProgram
      [] c \in NullFamily -> NullProgram
      [] c \in {"OOO", "Meltdown"} -> OOOProgram
      [] c = "DivOverflow" -> DivProgram
      [] c = "GP" -> GPProgram

\* the registers of an input
Regs(rax, rbx, rcx, rdx) == [RAX |-> rax, RBX |-> rbx, RCX |-> rcx, RDX |-> rdx]

\* the memory image of the inputs: no byte of it is zero
InputMemory == [a \in 0..(MemSize - 1) |-> a + 1]

Input(r, f) == [regs |-> r, flags |-> f, mem |-> InputMemory]

\* RCX of 1 and 2, with all the flags clear and set
CondInputs ==
    {Input(Regs(U64(0), U64(0), U64(rcx), U64(0)), f) : rcx \in 1..2, f \in {0, 4095}}

NullInputs == {Input(Regs(U64(5), U64(8), U64(0), U64(0)), 0)}

\* dividends (RDX:RAX) and divisors (RBX): a quotient of more than 64 bits,
\* one that fits, one of 2^64 exactly, and a divisor of zero
OOOInputs ==
    {Input(Regs(U64(12345), U64(3), U64(0), U64(5)), 0),
     Input(Regs(U64(77), U64(3), U64(0), U64(0)), 0),
     Input(Regs(U64(0), U64(1), U64(0), U64(1)), 0),
     Input(Regs(U64(7), U64(0), U64(0), U64(0)), 0)}

\* base registers (RBX) at, next to and between the bounds of the
\* non-canonical addresses
GPInputs ==
    {Input(Regs(U64(0), rbx, U64(8), U64(0)), 0) :
        rbx \in {U64(8),
                 GP_low,
                 <<0, 0, 0, 0, 0, 128, 0, 0>>,
                 <<16, 0, 0, 0, 0, 0, 1, 0>>,
                 <<0, 0, 0, 0, 0, 128, 254, 255>>,
                 <<255, 255, 255, 255, 255, 127, 255, 255>>,
                 GP_high}}

Inputs(c) ==
    CASE c \in CondFamily -> CondInputs
      [] c \in NullFamily -> NullInputs
      [] c \in {"OOO", "Meltdown", "DivOverflow"} -> OOOInputs
      [] c = "GP" -> GPInputs

\* the fault numbers offered to speculate_fault
Errnos == {6, 12, 13, 21}

\* the memory accesses of the test cases: in the main and in the faulty region
AccessAddresses == {0, faulty_region}
AccessSizes == {8, 16}

\* ------------------------------------------------------------------------
\* The run of a test case: the hooks as the emulator calls them
\* ------------------------------------------------------------------------
\* X86UnicornModel._load_input: the memory image and the registers of the
\* input, the flags masked to the bits the hardware lets a program set
load_input(s, input) ==
    [s EXCEPT !.mem = input.mem,
              !.regs = input.regs,
              !.flags = BitOr(BitAnd(input.flags, FLAGS_LOAD_MASK), FLAGS_LOAD_SET)]

\* the start of a run in the generic model: the speculation state of the
\* previous run is dropped and the faulty region is protected again
start_run(s) ==
    [s EXCEPT !.loaded = TRUE, !.steps = 0, !.checkpoints = <<>>,
              !.store_logs = <<>>, !.in_speculation = FALSE,
              !.faulty_protected = TRUE, !.current_instruction = NoInstr,
              !.rip = 0, !.stopped = FALSE, !.ret = 0]

\* the instruction hook of the instance's class
speculate_instruction(s, instr, side) ==
    CASE s.contract = "Cond" ->
            Cond_speculate_instruction(s, instr.address, instr.size, instr.code)
      [] s.contract = "CondBpas" ->
            CondBpas_speculate_instruction(s, instr.address, instr.size, instr.code)
      [] s.contract \in NullFamily ->
            Null_speculate_instruction(s, instr.address, instr.size)
      [] s.contract \in {"OOO", "DivOverflow"} ->
            OOO_speculate_instruction(s, instr.address, instr.size, side)
      [] s.contract = "Meltdown" ->
            Meltdown_speculate_instruction(s, instr.address, instr.size)
      [] s.contract = "GP" ->
            GP_speculate_instruction(s, instr.address, instr.size)

\* the memory hook of the instance's class
speculate_mem_access(s, access, address, size, side) ==
    CASE s.contract = "Cond" -> Cond_speculate_mem_access(s, access, address, size)
      [] s.contract = "CondBpas" ->
            CondBpas_speculate_mem_access(s, access, address, size)
      [] s.contract = "Null" -> Null_speculate_mem_access(s, access, address, size)
      [] s.contract = "NullFault" ->
            NullFault_speculate_mem_access(s, access, address, size)
      [] s.contract = "DivOverflow" ->
            Div_trace_mem_access(s, access, address, size, side)
      [] s.contract \in {"OOO", "Meltdown", "GP"} ->
            OOO_trace_mem_access(s, access, address, size, side)

\* the fault hook of the instance's class
speculate_fault(s, errno) ==
    CASE s.contract \in NullFamily -> Null_speculate_fault(s, errno)
      [] s.contract \in {"OOO", "Meltdown"} -> OOO_speculate_fault(s, errno)
      [] s.contract = "DivOverflow" -> Div_speculate_fault(s, errno)
      [] s.contract = "GP" -> GP_speculate_fault(s, errno)

NoCall == Call("init", NoInstr, 0, 0, 0, 0)

Init ==
    /\ contract \in Contracts
    /\ nesting \in 0..MaxNesting
    /\ loaded = FALSE
    /\ steps = 0
    /\ checkpoints = <<>>
    /\ store_logs = <<>>
    /\ in_speculation = FALSE
    /\ regs = Regs(U64(0), U64(0), U64(0), U64(0))
    /\ flags = 0
    /\ rip = 0
    /\ mem = [a \in 0..(MemSize - 1) |-> 0]
    /\ faulty_protected = TRUE
    /\ injection_pending = FALSE
    /\ instruction_address = 0
    /\ dependencies = {}
    /\ dependency_checkpoints = <<>>
    /\ next_instr_address = 0
    /\ curr_instr_address = 0
    /\ last_faulty_instr_address = 0
    /\ pending_fault = 0
    /\ previous_context = [regs |-> regs, flags |-> 0, rip |-> 0]
    /\ stopped = FALSE
    /\ div_value = <<0>>
    /\ current_instruction = NoInstr
    /\ err = "none"
    /\ ret = 0
    /\ call = NoCall
    /\ pre = Before

\* a test case is run on an input
LoadInput ==
    /\ err = "none"
    /\ \E input \in Inputs(contract) :
          Becomes(load_input(start_run(State), input),
                  Call("load_input", NoInstr, 0, 0, 0, 0))

\* the emulator reaches an instruction and calls the instruction hook
InstructionHook ==
    /\ err = "none"
    /\ loaded
    /\ steps < MaxSteps
    /\ \E instr \in Program(contract), side \in MergeSides :
          Becomes(speculate_instruction(
                      [State EXCEPT !.current_instruction = instr,
                                    !.rip = instr.address,
                                    !.stopped = FALSE,
                                    !.steps = @ + 1],
                      instr, side),
                  Call("speculate_instruction", instr, 0, 0, 0, 0))

\* the current instruction accesses memory and the emulator calls the memory
\* hook; the instructions of the test cases make one access each
MemAccessHook ==
    /\ err = "none"
    /\ loaded
    /\ call.op = "speculate_instruction"
    /\ \E access \in {UC_MEM_READ, UC_MEM_WRITE}, address \in AccessAddresses,
          size \in AccessSizes, side \in MergeSides :
          Becomes(speculate_mem_access(State, access, address, size, side),
                  Call("speculate_mem_access", current_instruction, access, address,
                       size, 0))

\* the current instruction faults and the fault is offered to the contract
Fault ==
    /\ err = "none"
    /\ loaded
    /\ current_instruction # NoInstr
    /\ contract \notin CondFamily
    /\ \E errno \in Errnos :
          Becomes(speculate_fault(State, errno),
                  Call("speculate_fault", current_instruction, 0, 0, 0, errno))

\* the speculation window closes: the latest checkpoint is rolled back
Rollback ==
    /\ err = "none"
    /\ checkpoints # <<>>
    /\ Becomes(rollback(State), Call("rollback", current_instruction, 0, 0, 0, 0))

Next == LoadInput \/ InstructionHook \/ MemAccessHook \/ Fault \/ Rollback

Spec == Init /\ [][Next]_vars

\* ------------------------------------------------------------------------
\* Properties of the contracts
\* ------------------------------------------------------------------------
\* the latest checkpoint
TopCheckpoint == checkpoints[Len(checkpoints)]

\* the last operation pushed one checkpoint
PushedOne == Len(checkpoints) = Len(pre.checkpoints) + 1

\* what decode returned to the instruction hook that ran last (of the
\* conditional-branch contract)
Decoded == decode(call.instr.code, pre.flags, pre.regs["RCX"])

\* the last operation was the instruction hook of the conditional-branch
\* contract, on an instruction of at most 15 bytes
CondHooked ==
    /\ contract = "Cond"
    /\ call.op = "speculate_instruction"
    /\ call.instr.size <= MAX_INSTR_SIZE

\* C1: in every contract, after any sequence of instruction hooks, memory
\* hooks, faults and rollbacks, the checkpoint stack holds at most `nesting`
\* checkpoints.
C1_DepthWithinNesting == Len(checkpoints) <= nesting

\* a branch reached the instruction hook when the stack was full, and the
\* stack is as deep as before
C1_RefusedAtLimit ==
    /\ CondHooked
    /\ nesting > 0
    /\ Len(pre.checkpoints) = nesting
    /\ Decoded[1] # 0
    /\ Len(checkpoints) = nesting

\* the last operation was speculate_fault of the generic out-of-order
\* handler, with a fault of the curated subset and depth available
OOOFaultSpeculated ==
    /\ contract \in OOOFamily
    /\ call.op = "speculate_fault"
    /\ call.errno \in relevant_faults
    /\ Len(pre.checkpoints) < nesting
    /\ ~(contract = "DivOverflow" /\ call.instr.name \in {"DIV", "IDIV"})

\* C2: in the out-of-order contracts checkpoint does not fail: it pushes a
\* snapshot equal to the dependency set at the moment of the call, in step
\* with the inherited checkpoint; and rollback leaves the dependency set
\* equal to the snapshot it pops.
C2_SnapshotRoundTrip ==
    /\ OOOFaultSpeculated =>
          /\ err = "none"
          /\ PushedOne
          /\ Len(dependency_checkpoints) = Len(pre.dependency_checkpoints) + 1
          /\ dependency_checkpoints[Len(dependency_checkpoints)] = pre.dependencies
    /\ (contract \in OOOFamily /\ call.op = "rollback") =>
          /\ err = "none"
          /\ dependencies =
                 pre.dependency_checkpoints[Len(pre.dependency_checkpoints)]

\* the signed value of a displacement of one to four bytes
SignedValue(b) ==
    IF b[Len(b)] >= 128 THEN from_bytes(b) - Pow2(8 * Len(b)) ELSE from_bytes(b)

\* the last operation was the instruction hook of the conditional-branch
\* contract on a conditional jump, short (0x70-0x7F) or long (0x0F 0x80-0x8F)
JccHooked ==
    /\ CondHooked
    /\ \/ call.instr.code[1] \in 112..127
       \/ call.instr.code[1] = 15 /\ call.instr.code[2] \in multibyte_jmp_keys

\* the displacement bytes of the conditional jump
JccDisplacement ==
    SliceFrom(call.instr.code, IF call.instr.code[1] = 15 THEN 2 ELSE 1)

\* C3: for a conditional jump decode returns will_jump according to the
\* flags (JZ: ZF set) and a target equal to the signed value of the
\* displacement, so that with a displacement byte of 0x80 or more the branch
\* address address+size+target lies before the fallthrough address.
C3_SignedTarget ==
    JccHooked =>
      /\ call.instr.name = "JZ" => Decoded[2] = FlagSet(pre.flags, FLAGS_ZF)
      /\ Decoded[1] = SignedValue(JccDisplacement)
      /\ JccDisplacement[Len(JccDisplacement)] >= 128 =>
             call.instr.address + call.instr.size + Decoded[1]
                 < call.instr.address + call.instr.size

\* the conditional-branch hook identified a branch with depth available
C4_BranchSpeculated ==
    /\ CondHooked
    /\ Len(pre.checkpoints) < nesting
    /\ Decoded[1] # 0

\* the two addresses of the branch
C4_Taken == call.instr.address + call.instr.size + Decoded[1]
C4_Fallthrough == call.instr.address + call.instr.size

\* C4: the conditional-branch contract always mispredicts: when the hook
\* identifies a branch with depth available, the checkpoint it pushes resumes
\* at the correct next address (the target if will_jump, else the
\* fallthrough), the program counter is forced to the other address, and
\* the two differ.
C4_AlwaysMispredicts ==
    C4_BranchSpeculated =>
      /\ PushedOne
      /\ TopCheckpoint.next_instruction =
             (IF Decoded[2] THEN C4_Taken ELSE C4_Fallthrough)
      /\ rip = (IF Decoded[2] THEN C4_Fallthrough ELSE C4_Taken)
      /\ rip # TopCheckpoint.next_instruction

\* a taken branch was speculated: the checkpoint resumes at the target and
\* the program counter is at the fallthrough
C4_TakenMispredicted ==
    /\ C4_BranchSpeculated
    /\ Decoded[2]
    /\ rip = C4_Fallthrough
    /\ TopCheckpoint.next_instruction = C4_Taken

\* C5: for LOOP (0xE2) with RCX = 1 and any flags, decode returns
\* will_jump = FALSE and is_loop = TRUE, and after the instruction hook
\* RCX = 0 (stated for the calls with depth available).
C5_LoopDecrements ==
    (/\ CondHooked
     /\ call.instr.code[1] = 226
     /\ pre.regs["RCX"] = U64(1)
     /\ Len(pre.checkpoints) < nesting) =>
      /\ Decoded[2] = FALSE
      /\ Decoded[3] = TRUE
      /\ regs["RCX"] = U64(0)

\* the last operation was the memory hook of a zero-injection contract, for
\* a load, with the injection pending
InjectedLoad ==
    /\ contract \in NullFamily
    /\ call.op = "speculate_mem_access"
    /\ call.access = UC_MEM_READ
    /\ pre.injection_pending

\* the store-log entry appended last
LastLogged ==
    LET log == store_logs[Len(store_logs)] IN log[Len(log)]

\* C6: zero injection: the load after speculate_fault(12), of any size,
\* reads zero bytes, exactly one checkpoint is pushed, and its store log
\* receives an entry (address, original bytes) that covers every byte that
\* was overwritten, so that the rollback restores the original bytes.
C6_InjectionLogged ==
    /\ InjectedLoad =>
          /\ PushedOne
          /\ \A i \in 0..(call.size - 1) : mem[call.address + i] = 0
          /\ LastLogged[1] = call.address
          /\ Len(LastLogged[2]) >= call.size
          /\ \A i \in 1..call.size :
                 LastLogged[2][i] = pre.mem[call.address + i - 1]
    /\ (contract \in NullFamily /\ call.op = "rollback" /\ checkpoints = <<>>) =>
          mem = InputMemory

\* the last operation was speculate_fault of the divide-overflow contract on
\* the division by the 64-bit register RBX, which is not zero, with depth
\* available
DivFaulted(name) ==
    /\ contract = "DivOverflow"
    /\ call.op = "speculate_fault"
    /\ call.instr.name = name
    /\ call.instr.operands[1].value = <<"RBX">>
    /\ ~BIsZero(pre.regs["RBX"])
    /\ Len(pre.checkpoints) < nesting

\* the quotient and the remainder of RDX:RAX by RBX as the call found them
DivExpected ==
    BDivMod(BConcat(pre.regs["RDX"], pre.regs["RAX"]), pre.regs["RBX"])

\* C7: divide overflow, 64-bit DIV, divisor v # 0, depth available: after
\* speculate_fault RAX = ((RDX * 2^64 + RAX) div v) mod 2^64 and
\* RDX = (RDX * 2^64 + RAX) mod v, a checkpoint resuming at the end of the
\* program is pushed, and the address after the DIV is returned.
C7_Div64 ==
    DivFaulted("DIV") =>
      /\ err = "none"
      /\ regs["RAX"] = BResize(DivExpected[1], 8)
      /\ regs["RDX"] = BResize(DivExpected[2], 8)
      /\ PushedOne
      /\ TopCheckpoint.next_instruction = code_end
      /\ ret = call.instr.address + call.instr.size

\* x is a canonical address
Canonical(x) == ~(BLess(GP_low, x) /\ BLess(x, GP_high))

\* the last operation was the instruction hook of the non-canonical-address
\* contract on an instruction whose memory operand is the one register RBX
SingleBaseHooked ==
    /\ contract = "GP"
    /\ call.op = "speculate_instruction"
    /\ \E i \in MemOperands(call.instr) : call.instr.operands[i].value = <<"RBX">>

\* C8: a single base register with a value strictly between the bounds is
\* rewritten to a canonical address, fault 6 is pending, the instruction is
\* recorded as the last faulty one and the emulation is stopped; a value
\* equal to a bound and an operand of more than one term are left as they are.
C8_CorrectedToCanonical ==
    /\ (SingleBaseHooked /\ ~Canonical(pre.regs["RBX"])) =>
          /\ Canonical(regs["RBX"])
          /\ pending_fault = GP_FAULT
          /\ last_faulty_instr_address = call.instr.address
          /\ stopped
    /\ (SingleBaseHooked /\ pre.regs["RBX"] \in {GP_low, GP_high}) =>
          regs = pre.regs
    /\ (/\ contract = "GP"
        /\ call.op = "speculate_instruction"
        /\ \A i \in MemOperands(call.instr) :
               Len(re_split(call.instr.operands[i].value)) > 1) =>
          regs = pre.regs

\* C9: after the contract corrected a base register and its fault 6 reached
\* the fault handler with depth available, the fault is speculated and the
\* checkpoint holds the original value of the register (the corrected one
\* with the address bit flipped back), which the rollback restores.
C9_OriginalRestored ==
    /\ (/\ contract = "GP"
        /\ call.op = "speculate_fault"
        /\ call.errno = GP_FAULT
        /\ pending_fault = GP_FAULT
        /\ last_faulty_instr_address = call.instr.address
        /\ Len(pre.checkpoints) < nesting) =>
          /\ err = "none"
          /\ PushedOne
          /\ TopCheckpoint.context.regs["RBX"] =
                 BFlipBit(previous_context.regs["RBX"], GP_MASK_BIT)
    /\ (contract = "GP" /\ call.op = "rollback") =>
          regs = pre.checkpoints[Len(pre.checkpoints)].context.regs

\* C10: when speculate_fault reaches the synthesis for IDIV (divisor not
\* zero, depth available) it ends in the unimplemented-path failure, and
\* writes no quotient or remainder.
C10_IdivUnimplemented ==
    DivFaulted("IDIV") =>
      /\ err = "UnreachableCode"
      /\ regs = pre.regs

\* C11: non-canonical-address contract: the fault handler, called with the
\* simulated fault 6 of a pending correction and with depth available,
\* speculates and returns the address of the corrected instruction
\* (curr_instr_address): not 0 and not the address of the next instruction.
C11_ResumesAtCorrected ==
    (/\ contract = "GP"
     /\ call.op = "speculate_fault"
     /\ call.errno = GP_FAULT
     /\ pending_fault = GP_FAULT
     /\ Len(pre.checkpoints) < nesting) =>
      /\ ret = curr_instr_address
      /\ ret # 0
      /\ ret # next_instr_address

\* the registers and flags an instruction reads as data operands, and the
\* registers its memory operands compute their addresses from
DataSources(instr) ==
    UNION {LET op == instr.operands[i]
           IN  CASE op.kind = "REG" ->
                        IF op.src THEN {gpr_normalized(op.value[1])} ELSE {}
                 [] op.kind = "MEM" -> {}
                 [] op.kind = "FLAGS" -> Range(op.read_flags)
           : i \in AllOperands(instr)}
AddressSources(instr) ==
    UNION {MemOpRegisters(instr.operands[i]) : i \in MemOperands(instr)}

\* the canonical names of the registers and the flags an instruction writes
WrittenNames(instr) ==
    UNION {LET op == instr.operands[i]
           IN  CASE op.kind = "REG" ->
                        IF op.dest THEN {gpr_normalized(op.value[1])} ELSE {}
                 [] op.kind = "MEM" -> {}
                 [] op.kind = "FLAGS" -> Range(op.write_flags)
           : i \in AllOperands(instr)}

\* the last operation was speculate_fault of contract c on an instruction
\* with destinations, with a fault of the curated subset and depth available:
\* the call that opens the post-fault window
WindowFault(c) ==
    /\ contract = c
    /\ call.op = "speculate_fault"
    /\ call.errno \in {12, 13}
    /\ Len(pre.checkpoints) < nesting
    /\ WrittenNames(call.instr) # {}
    /\ call.instr.name \notin {"DIV", "IDIV"}

\* the last operation was the instruction hook of contract c, in a
\* speculation with a non-empty dependency set, on an instruction that the
\* contract does not hold for the one that faulted
WindowHooked(c) ==
    /\ contract = c
    /\ call.op = "speculate_instruction"
    /\ Len(pre.checkpoints) > 0
    /\ pre.dependencies # {}
    /\ last_faulty_instr_address # curr_instr_address

\* C12: non-canonical-address contract: a speculated fault opens the
\* post-fault window (the destinations of the faulting instruction make up a
\* non-empty dependency set); in the window an instruction that meets the
\* dependency set only through the address registers of a memory operand is
\* executed (the program counter stays at it), and an instruction that reads
\* a dependent register as a data operand is skipped (the program counter is
\* set past it).
C12_AddressOnlyExecutes ==
    /\ WindowFault("GP") =>
          /\ err = "none"
          /\ dependencies = pre.dependencies \cup WrittenNames(call.instr)
    /\ WindowHooked("GP") =>
          /\ (/\ DataSources(call.instr) \cap pre.dependencies = {}
              /\ AddressSources(call.instr) \cap pre.dependencies # {}) =>
                rip = call.instr.address
          /\ DataSources(call.instr) \cap pre.dependencies # {} =>
                rip = call.instr.address + call.instr.size

\* C13: generic out-of-order contract, speculate_fault(errno): for an errno
\* outside {12, 13} or at the depth limit it returns 0; otherwise it pushes a
\* checkpoint resuming at the end of the program, adds every destination
\* register and written flag of the faulting instruction to the dependency
\* set, and returns the address of the next instruction, or 0 if that is at
\* or past the end of the program.
C13_FaultSeedsAndResumes ==
    (contract = "OOO" /\ call.op = "speculate_fault") =>
      IF call.errno \notin {12, 13} \/ Len(pre.checkpoints) >= nesting
      THEN ret = 0
      ELSE /\ PushedOne
           /\ TopCheckpoint.next_instruction = code_end
           /\ WrittenNames(call.instr) \subseteq dependencies
           /\ ret = (IF call.instr.address + call.instr.size >= code_end
                     THEN 0
                     ELSE call.instr.address + call.instr.size)

\* every name an instruction reads: registers, flags and the registers of
\* the address computation of its memory operands
Sources(instr) == DataSources(instr) \cup AddressSources(instr)

\* the hook redirected the program counter past the instruction
Skipped == rip = call.instr.address + call.instr.size

C15_FaultingLoadExecutes ==
    /\ (/\ contract = "Meltdown" /\ call.op = "speculate_fault"
        /\ call.errno \in {12, 13} /\ Len(pre.checkpoints) < nesting
        /\ MemOperands(call.instr) # {}) =>
          /\ err = "none"
          /\ PushedOne
          /\ ret = call.instr.address
    /\ (contract = "Meltdown" /\ call.op = "speculate_instruction") =>
          /\ dependencies = pre.dependencies
          /\ rip = call.instr.address

\* the memory hook of a zero-injection contract was called for a store
StoreHooked ==
    /\ contract \in NullFamily
    /\ call.op = "speculate_mem_access"
    /\ call.access = UC_MEM_WRITE

\* C16: zero-injection contracts, both variants: a memory-access hook call
\* with access = write, whatever the pending-injection flag, pushes no
\* checkpoint, appends no store-log entry and overwrites no memory byte.
C16_StoreNeverInjects ==
    StoreHooked =>
      /\ checkpoints = pre.checkpoints
      /\ store_logs = pre.store_logs
      /\ mem = pre.mem

\* a store met a pending injection and consumed it without injecting
C16_StoreWhilePending ==
    /\ StoreHooked
    /\ pre.injection_pending
    /\ ~injection_pending
    /\ checkpoints = <<>>
    /\ mem = InputMemory

\* C17: after _load_input for a new run, whatever the previous run did, the
\* pending-injection flag is false, the dependency set and the stack of
\* dependency snapshots are empty, and the captured divisor and the address
\* of the last faulting instruction hold their initial values.
C17_ResetAtInputLoad ==
    call.op = "load_input" =>
      /\ ~injection_pending
      /\ dependencies = {}
      /\ dependency_checkpoints = <<>>
      /\ div_value = <<0>>
      /\ last_faulty_instr_address = 0

\* a hook or a fault handler of the contract ran
ContractCalled ==
    call.op \in {"speculate_instruction", "speculate_mem_access", "speculate_fault"}

\* C18 as stated: once the checkpoint stack has reached the configured
\* maximum depth, the contract forks no further checkpoint for the remainder
\* of the run, also after a rollback has lowered the depth again: the step
\* that follows a rollback from full depth pushes nothing.
C18_NeverForksAgain ==
    [][(\/ Len(checkpoints) >= nesting
        \/ call.op = "rollback" /\ Len(pre.checkpoints) >= nesting) =>
          Len(checkpoints') <= Len(checkpoints)]_vars

\* C18, amended: while the checkpoint stack is at the configured maximum
\* depth, no hook and no fault handler forks a checkpoint, and the
\* instruction hooks and fault handlers, which carry the test of the limit,
\* return without failing; the limit bounds the depth, not the number of
\* checkpoints of a run.
C18_NoForkAtLimit ==
    (ContractCalled /\ Len(pre.checkpoints) >= nesting) =>
      /\ Len(checkpoints) = Len(pre.checkpoints)
      /\ call.op \in {"speculate_instruction", "speculate_fault"} => err = "none"

\* a relevant fault at full depth was declined by the zero-injection contract
C18_FaultDeclinedAtLimit ==
    /\ contract \in NullFamily
    /\ call.op = "speculate_fault"
    /\ call.errno \in {12, 13}
    /\ nesting > 0
    /\ Len(pre.checkpoints) = nesting
    /\ ret = 0
    /\ ~injection_pending
    /\ err = "none"

\* the opcode of the hooked instruction is a key of the lookup tables: a
\* one-byte key of `jumps`, or 0x0F followed by a key of `multibyte_jmp`
InTables ==
    IF call.instr.code[1] = 15
    THEN Len(call.instr.code) > 1 /\ call.instr.code[2] \in multibyte_jmp_keys
    ELSE call.instr.code[1] \in jumps_keys

\* the hook treated the instruction as "not a branch": no checkpoint, no
\* redirect of the program counter, RCX untouched
NotABranch ==
    /\ checkpoints = pre.checkpoints
    /\ rip = call.instr.address
    /\ regs["RCX"] = pre.regs["RCX"]

\* C19: conditional-branch contract, depth available: an instruction of at
\* most 15 bytes is treated as "not a branch" iff its opcode is absent from
\* both lookup tables; a conditional jump or LOOP-family instruction of the
\* tables is a branch for every displacement, 0 included, and a LOOP-family
\* instruction (0xE0-0xE2) then has RCX decremented.
C19_BranchIffInTables ==
    (CondHooked /\ Len(pre.checkpoints) < nesting) =>
      /\ NotABranch <=> ~InTables
      /\ (InTables /\ call.instr.code[1] \in 224..226) =>
             regs["RCX"] = BSub(pre.regs["RCX"], U64(1), 8)

DecrementedRCX == BSub(pre.regs["RCX"], U64(1), 8)

\* C22: conditional-branch contract, depth available: for a LOOP-family
\* opcode (0xE0-0xE2) RCX is decremented by exactly one, taken or not, before
\* the checkpoint is taken, so the context the checkpoint holds, which the
\* rollback restores, has the decremented RCX; J*CXZ (0xE3) never changes
\* RCX.
C22_LoopDecrementArchitectural ==
    /\ (/\ CondHooked /\ Len(pre.checkpoints) < nesting
        /\ call.instr.code[1] \in 224..226) =>
          /\ regs["RCX"] = DecrementedRCX
          /\ PushedOne
          /\ TopCheckpoint.context.regs["RCX"] = DecrementedRCX
    /\ (CondHooked /\ call.instr.code[1] = 227) =>
          /\ regs["RCX"] = pre.regs["RCX"]
          /\ PushedOne => TopCheckpoint.context.regs["RCX"] = pre.regs["RCX"]
    /\ (contract = "Cond" /\ call.op = "rollback") =>
          regs = pre.checkpoints[Len(pre.checkpoints)].context.regs

\* the registers as the last operation left them
Now == [regs |-> regs]

\* the last operation was speculate_fault of the divide-overflow contract on
\* a DIV by a register of 32, 16 or 8 bits, with depth available
NarrowDivFaulted ==
    /\ contract = "DivOverflow"
    /\ call.op = "speculate_fault"
    /\ call.instr.name = "DIV"
    /\ call.instr.operands[1].kind = "REG"
    /\ call.instr.operands[1].width \in {32, 16, 8}
    /\ Len(pre.checkpoints) < nesting

\* the divisor and the dividend (EDX:EAX, DX:AX, AX) as the call found them
NarrowDivisor == reg_read(pre, call.instr.operands[1].value[1])

NarrowDividend ==
    CASE call.instr.operands[1].width = 32 ->
             BConcat(reg_read(pre, "EDX"), reg_read(pre, "EAX"))
      [] call.instr.operands[1].width = 16 ->
             BConcat(reg_read(pre, "DX"), reg_read(pre, "AX"))
      [] call.instr.operands[1].width = 8 -> reg_read(pre, "AX")

\* the quotient and the remainder register of the width
NarrowQuotient ==
    CASE call.instr.operands[1].width = 32 -> "EAX"
      [] call.instr.operands[1].width = 16 -> "AX"
      [] call.instr.operands[1].width = 8 -> "AL"

NarrowRemainder ==
    CASE call.instr.operands[1].width = 32 -> "EDX"
      [] call.instr.operands[1].width = 16 -> "DX"
      [] call.instr.operands[1].width = 8 -> "AH"

\* C23: divide overflow, DIV of width w in {32, 16, 8}, depth available:
\* with a divisor v # 0 the quotient register (EAX, AX, AL) receives
\* (dividend div v) mod 2^w and the remainder register (EDX, DX, AH) receives
\* dividend mod v; with a zero divisor no register is written.
C23_DivNarrow ==
    NarrowDivFaulted =>
      IF BIsZero(NarrowDivisor)
      THEN regs = pre.regs
      ELSE /\ err = "none"
           /\ reg_read(Now, NarrowQuotient) =
                  BResize(BDivMod(NarrowDividend, NarrowDivisor)[1],
                          call.instr.operands[1].width \div 8)
           /\ reg_read(Now, NarrowRemainder) =
                  BResize(BDivMod(NarrowDividend, NarrowDivisor)[2],
                          call.instr.operands[1].width \div 8)

\* the last operation was the generic out-of-order fault handler in one of
\* the three cases in which it is to return 0: a fault outside the curated
\* subset, the depth limit reached, or the next instruction at or past the
\* end of the program
OOOFaultDeclined ==
    /\ contract \in OOOFamily
    /\ call.op = "speculate_fault"
    /\ ~(contract = "DivOverflow" /\ call.instr.name \in {"DIV", "IDIV"})
    /\ \/ call.errno \notin {12, 13}
       \/ Len(pre.checkpoints) >= nesting
       \/ call.instr.address + call.instr.size >= code_end

\* C24: out-of-order contracts: when speculate_fault returns 0 (fault
\* outside the curated subset, maximum nesting reached, or next instruction
\* at or past the end of the program), the checkpoint stack, the stack of
\* dependency snapshots and the dependency set are as they were before the
\* call.
C24_DeclinedLeavesNoTrace ==
    OOOFaultDeclined =>
      /\ err = "none"
      /\ ret = 0
      /\ checkpoints = pre.checkpoints
      /\ dependency_checkpoints = pre.dependency_checkpoints
      /\ dependencies = pre.dependencies

\* C25: zero-injection contracts: a speculate_fault call that returns a
\* resume address lifts the protection of the faulty region and arms the
\* pending injection; the memory access that consumes the pending injection
\* pushes exactly one checkpoint, so that an access to the unprotected faulty
\* region has a checkpoint on the stack.
C25_InjectionAlwaysCheckpointed ==
    contract \in NullFamily =>
      /\ (call.op = "speculate_fault" /\ ret # 0) =>
            /\ injection_pending
            /\ ~faulty_protected
      /\ (call.op = "speculate_mem_access" /\ pre.injection_pending) =>
            /\ ~injection_pending
            /\ PushedOne
            /\ call.address >= faulty_region => checkpoints # <<>>

====
